---- MODULE Spec2Model ----
(***************************************************************************)
(* Model of src/excelsplitter/src/CSVDateSplitter.js: the React component  *)
(* that filters the rows of a CSV or Excel file by a date column and a     *)
(* date range and writes the kept rows to one Excel file.                   *)
(*                                                                          *)
(* Strings whose characters the code inspects (header names, the requested  *)
(* column, file names) are sequences of one-character strings, so that      *)
(* trim(), toLowerCase() and split() are computed.  A JavaScript Date is an *)
(* instant [day, ms]: the UTC day number counted from 2024-01-01 and the    *)
(* millisecond within that day.  The local timezone is a fixed offset tz    *)
(* (milliseconds east of UTC) chosen by the environment.                    *)
(***************************************************************************)
EXTENDS Integers, Sequences, FiniteSets, TLC

VARIABLES
  file,            \* useState(null): name of the selected file, or NoFile
  startDate,       \* useState(''): value of the start <input type="date">
  endDate,         \* useState(''): value of the end <input type="date">
  dateColumn,      \* useState('Date of Visit')
  error,           \* useState('')
  processing,      \* useState(false)
  processedCount,  \* useState(0)
  skippedCount,    \* useState(0)
  skippedRows,     \* useState([])
  totalRows,       \* useState(0)
  tz,              \* environment: local timezone offset, ms east of UTC
  pc,              \* "idle", or which asynchronous decode is outstanding
  run,             \* the values the outstanding callback closed over
  last,            \* history: what the latest callback was handed and how it ended
  saved            \* the file the current run handed to saveAs, or NoSave

vars == <<file, startDate, endDate, dateColumn, error, processing, processedCount,
          skippedCount, skippedRows, totalRows, tz, pc, run, last, saved>>

-----------------------------------------------------------------------------
(* Bounds *)

\* Largest number of data rows in a decoded table.
MaxRows == 2

-----------------------------------------------------------------------------
(* Strings *)

UpperChars == <<"A","B","C","D","E","F","G","H","I","J","K","L","M",
                "N","O","P","Q","R","S","T","U","V","W","X","Y","Z">>
LowerChars == <<"a","b","c","d","e","f","g","h","i","j","k","l","m",
                "n","o","p","q","r","s","t","u","v","w","x","y","z">>

\* the characters that occur in the strings of this model
Chars == {UpperChars[i] : i \in 1..Len(UpperChars)}
         \cup {LowerChars[i] : i \in 1..Len(LowerChars)}
         \cup {" ", "\t", "."}

LowerMap ==
  [c \in Chars |->
     IF \E i \in 1..Len(UpperChars) : UpperChars[i] = c
     THEN LowerChars[CHOOSE i \in 1..Len(UpperChars) : UpperChars[i] = c]
     ELSE c]

ToLowerChar(c) == LowerMap[c]

\* String.prototype.toLowerCase
ToLowerCase(s) == [i \in 1..Len(s) |-> ToLowerChar(s[i])]

IsSpace(c) == c \in {" ", "\t"}

RECURSIVE TrimStart(_)
TrimStart(s) == IF s # <<>> /\ IsSpace(Head(s)) THEN TrimStart(Tail(s)) ELSE s

RECURSIVE TrimEnd(_)
TrimEnd(s) ==
  IF s # <<>> /\ IsSpace(s[Len(s)]) THEN TrimEnd(SubSeq(s, 1, Len(s) - 1)) ELSE s

\* String.prototype.trim
Trim(s) == TrimEnd(TrimStart(s))

\* header.trim().toLowerCase()
Normalize(s) == ToLowerCase(Trim(s))

\* name.split('.').pop(): the text after the last '.', the whole name if none
RECURSIVE LastPart(_)
LastPart(s) ==
  IF \E i \in 1..Len(s) : s[i] = "."
  THEN LastPart(SubSeq(s, (CHOOSE i \in 1..Len(s) : s[i] = ".") + 1, Len(s)))
  ELSE s

\* file.name.split('.').pop().toLowerCase()
FileType(name) == ToLowerCase(LastPart(name))

Range(s) == {s[i] : i \in 1..Len(s)}

-----------------------------------------------------------------------------
(* JavaScript Date *)

MsPerDay == 24 * 60 * 60 * 1000

\* the time of day setHours(23, 59, 59, 999) sets
EndOfDayMs == ((23 * 60 + 59) * 60 + 59) * 1000 + 999

\* new Date(NaN): what isValidDate rejects
InvalidDate == [day |-> 0, ms |-> -2]

\* parseDate's null
Null == [day |-> 0, ms |-> -1]

\* parseDate left by an uncaught TypeError
Threw == [day |-> 0, ms |-> -3]

Norm(day, ms) == [day |-> day + (ms \div MsPerDay), ms |-> ms % MsPerDay]

\* a < b on two valid Dates
Before(a, b) == a.day < b.day \/ (a.day = b.day /\ a.ms < b.ms)

IsLeap(y) == (y % 4 = 0 /\ y % 100 # 0) \/ y % 400 = 0

YearLen(y) == IF IsLeap(y) THEN 366 ELSE 365

\* mi is a month index 0..11
DaysInMonth(y, mi) ==
  IF mi = 1 THEN (IF IsLeap(y) THEN 29 ELSE 28)
  ELSE IF mi \in {3, 5, 8, 10} THEN 30 ELSE 31

\* day number of January 1st of year y, counted from 2024-01-01
RECURSIVE DayFromYear(_)
DayFromYear(y) ==
  IF y = 2024 THEN 0
  ELSE IF y > 2024 THEN DayFromYear(y - 1) + YearLen(y - 1)
  ELSE DayFromYear(y + 1) - YearLen(y)

RECURSIVE DaysBeforeMonth(_, _)
DaysBeforeMonth(y, mi) ==
  IF mi = 0 THEN 0 ELSE DaysBeforeMonth(y, mi - 1) + DaysInMonth(y, mi - 1)

\* ECMAScript MakeDay(year, month, date): month and date outside their usual
\* range roll over into the neighbouring months and years
MakeDay(y, mi, d) ==
  LET ym == y + (mi \div 12)
      mn == mi % 12
  IN  DayFromYear(ym) + DaysBeforeMonth(ym, mn) + d - 1

\* the instant whose local date is day number L and local time of day is tod
FromLocal(L, tod, off) == Norm(L, tod - off)

\* the local day number of instant t
LocalDay(t, off) == Norm(t.day, t.ms + off).day

\* date.setHours(h, m, s, ms) with the time of day given in ms
SetHours(t, tod, off) == FromLocal(LocalDay(t, off), tod, off)

\* new Date(year, monthIndex, day): local midnight, with roll-over
NewDateFields(y, mi, d, off) == FromLocal(MakeDay(y, mi, d), 0, off)

IsCalendarDate(y, m, d) == m \in 1..12 /\ d >= 1 /\ d <= DaysInMonth(y, m - 1)

\* The value of an <input type="date">: '' or "YYYY-MM-DD"
NoDate == [y |-> 0, m |-> 0, d |-> 0]

\* new Date("YYYY-MM-DD"): a date-only ISO string is UTC midnight
NewDateIso(v) ==
  IF IsCalendarDate(v.y, v.m, v.d)
  THEN [day |-> MakeDay(v.y, v.m - 1, v.d), ms |-> 0]
  ELSE InvalidDate

-----------------------------------------------------------------------------
(* Cells *)

\* A cell value as the decoder delivers it.  k is
\*   "empty":  undefined or ''
\*   "iso":    the text "YYYY-MM-DD"
\*   "slash":  the text "m/d/y" (three numeric parts)
\*   "text":   text that is no date and has no two slashes
\*   "bignum": a number beyond the Date range of 8.64e15 (Excel path only)
Cell(k, y, m, d) == [k |-> k, y |-> y, m |-> m, d |-> d]

EmptyCell == Cell("empty", 0, 0, 0)
TextCell == Cell("text", 0, 0, 0)
BigNumCell == Cell("bignum", 0, 0, 0)

\* The year the engine's legacy parser gives a two-digit year
LegacyYear(y) == IF y < 50 THEN 2000 + y ELSE IF y < 100 THEN 1900 + y ELSE y

\* new Date(dateString), line 197.  The parse of a non-ISO string is
\* implementation-defined; this is V8's: "m/d/y" is a local date when the
\* month is 1..12 and the day 1..31 (a day beyond the month's end rolls
\* over), and Invalid Date otherwise.
NewDateValue(c, off) ==
  CASE c.k = "iso" -> NewDateIso(c)
    [] c.k = "slash" ->
         IF c.m \in 1..12 /\ c.d \in 1..31
         THEN NewDateFields(LegacyYear(c.y), c.m - 1, c.d, off)
         ELSE InvalidDate
    [] OTHER -> InvalidDate

\* isValidDate, lines 191-193
IsValidDate(t) == t # InvalidDate

\* parseDate, lines 195-208
ParseDate(c, off) ==
  IF c.k = "empty" THEN Null
  ELSE LET parsedDate == NewDateValue(c, off)
       IN  IF IsValidDate(parsedDate) THEN parsedDate
           \* dateString.split is not a function on a number: TypeError
           ELSE IF c.k = "bignum" THEN Threw
           \* parts.length === 3
           ELSE IF c.k = "slash"
                THEN LET year == IF c.y < 100 THEN c.y + 2000 ELSE c.y
                         d2 == NewDateFields(year, c.m - 1, c.d, off)
                     IN  IF IsValidDate(d2) THEN d2 ELSE Null
                ELSE Null

-----------------------------------------------------------------------------
(* The inputs the environment can supply *)

sDateOfVisit == <<"D","a","t","e"," ","o","f"," ","V","i","s","i","t">>
sDateOfVisitUpper == <<" ","D","A","T","E"," ","O","F"," ","V","I","S","I","T"," ">>
sName == <<"N","a","m","e">>
sNameTyped == <<" ","N","A","M","E"," ">>

\* what the user can type into the column field
ColumnInputs == {sNameTyped}

NoFile == <<>>
FileNames == { <<"a",".","c","s","v">>, <<"b",".","X","L","S","X">>,
               <<"n",".","t","x","t">> }

DateInputs == { NoDate, [y |-> 2024, m |-> 1, d |-> 31], [y |-> 2024, m |-> 2, d |-> 1] }

\* UTC-5 and UTC+2
TzOffsets == { -5 * 60 * 60 * 1000, 2 * 60 * 60 * 1000 }

IsoCell == Cell("iso", 2024, 2, 1)

\* '', "1/31/2024", "2/1/2024", "13/32/23"
TextCells == { EmptyCell,
               Cell("slash", 2024, 1, 31), Cell("slash", 2024, 2, 1),
               Cell("slash", 23, 13, 32) }

\* a sheet cell can also be a number: '', "2/1/2024", 1e16
SheetCells == { EmptyCell, Cell("slash", 2024, 2, 1), BigNumCell }

SeqsUpTo(S, n) == UNION { [1..k -> S] : k \in 0..n }

\* one date column
Headers1 == << sDateOfVisit >>
\* two headers that differ only in case and surrounding blanks
Headers3 == << sName, sDateOfVisit, sDateOfVisitUpper >>

Rows1(cells) == { <<c>> : c \in cells }
\* one of the two same-named columns holds "2024-02-01", the other text that
\* is no date
Rows3 == { <<TextCell, IsoCell, TextCell>>, <<TextCell, TextCell, IsoCell>> }

Tables(cells) ==
  { [headers |-> Headers1, rows |-> r] : r \in SeqsUpTo(Rows1(cells), MaxRows) }
  \cup { [headers |-> Headers3, rows |-> r] : r \in SeqsUpTo(Rows3, MaxRows) }

\* what Papa.parse hands to complete: meta.fields and the data rows
CsvTables == Tables(TextCells)

\* what sheet_to_json(..., {header: 1}) returns: an array of arrays, the header
\* row first; empty for a sheet without cells
Worksheets ==
  { [hasRows |-> TRUE, headers |-> t.headers, rows |-> t.rows] : t \in Tables(SheetCells) }
  \cup { [hasRows |-> FALSE, headers |-> <<>>, rows |-> <<>>] }

-----------------------------------------------------------------------------
(* State *)

NoError == [kind |-> "", name |-> <<>>]
Err(kind) == [kind |-> kind, name |-> <<>>]

NoRun == [column |-> <<>>, start |-> NoDate, end |-> NoDate]

NoLast == [path |-> "", headers |-> <<>>, rows |-> <<>>, column |-> <<>>,
           start |-> NoDate, end |-> NoDate, outcome |-> "none"]

NoSave == [written |-> FALSE, rows |-> <<>>, start |-> NoDate, end |-> NoDate,
           alert |-> <<0, 0>>]

Init ==
  /\ file = NoFile
  /\ startDate = NoDate
  /\ endDate = NoDate
  /\ dateColumn = sDateOfVisit
  /\ error = NoError
  /\ processing = FALSE
  /\ processedCount = 0
  /\ skippedCount = 0
  /\ skippedRows = <<>>
  /\ totalRows = 0
  /\ tz \in TzOffsets
  /\ pc = "idle"
  /\ run = NoRun
  /\ last = NoLast
  /\ saved = NoSave

\* resetCountsAndData, lines 29-34
ResetCountsAndData ==
  /\ processedCount' = 0
  /\ skippedCount' = 0
  /\ skippedRows' = <<>>
  /\ totalRows' = 0

\* handleFileChange, lines 19-23
HandleFileChange ==
  \E f \in FileNames \cup {NoFile} :
    /\ error' = NoError
    /\ file' = f
    /\ ResetCountsAndData
    /\ last' = NoLast
    /\ UNCHANGED <<startDate, endDate, dateColumn, processing, tz, pc, run, saved>>

\* handleDateColumnChange, lines 25-27
HandleDateColumnChange ==
  \E v \in ColumnInputs :
    /\ dateColumn' = Trim(v)
    /\ UNCHANGED <<file, startDate, endDate, error, processing, processedCount,
                   skippedCount, skippedRows, totalRows, tz, pc, run, last, saved>>

\* onChange of the start date input, line 246
SetStartDate ==
  \E v \in DateInputs :
    /\ startDate' = v
    /\ UNCHANGED <<file, endDate, dateColumn, error, processing, processedCount,
                   skippedCount, skippedRows, totalRows, tz, pc, run, last, saved>>

\* onChange of the end date input, line 255
SetEndDate ==
  \E v \in DateInputs :
    /\ endDate' = v
    /\ UNCHANGED <<file, startDate, dateColumn, error, processing, processedCount,
                   skippedCount, skippedRows, totalRows, tz, pc, run, last, saved>>

\* Mutation of ValidateDates: <= where the code has <, so a one-day range is
\* rejected.
ValidateDatesOrEqual(s, e) ==
  IF s = NoDate \/ e = NoDate THEN Err("SelectBothDates")
  ELSE IF ~Before(NewDateIso(s), NewDateIso(e)) THEN Err("EndBeforeStart")
  ELSE NoError

\* validateDates, lines 36-46: the error it sets, NoError when it returns true
ValidateDates(s, e) ==
  IF s = NoDate \/ e = NoDate THEN Err("SelectBothDates")
  ELSE IF Before(NewDateIso(e), NewDateIso(s)) THEN Err("EndBeforeStart")
  ELSE NoError

\* processFile, lines 48-68
ProcessFileCall ==
  /\ pc = "idle"
  /\ ResetCountsAndData
  /\ last' = NoLast
  /\ saved' = NoSave
  /\ UNCHANGED <<file, startDate, endDate, dateColumn, tz>>
  /\ LET invalid == ValidateDates(startDate, endDate)
         fileType == FileType(file)
     IN  IF invalid # NoError
         THEN /\ error' = invalid
              /\ UNCHANGED <<processing, pc, run>>
         ELSE IF file # NoFile
         THEN IF fileType = <<"c","s","v">>
              THEN \* processCSVFile, lines 70-72
                   /\ error' = NoError
                   /\ processing' = TRUE
                   /\ pc' = "csv"
                   /\ run' = [column |-> dateColumn, start |-> startDate, end |-> endDate]
              ELSE IF fileType = <<"x","l","s","x">> \/ fileType = <<"x","l","s">>
              THEN \* processExcelFile, lines 102-104 and 141
                   /\ error' = NoError
                   /\ processing' = TRUE
                   /\ pc' = "excel"
                   /\ run' = [column |-> dateColumn, start |-> startDate, end |-> endDate]
              ELSE /\ error' = Err("UnsupportedFileType")
                   /\ UNCHANGED <<processing, pc, run>>
         ELSE /\ error' = Err("UploadFile")
              /\ UNCHANGED <<processing, pc, run>>

\* the button's disabled attribute, line 284
ButtonDisabled == file = NoFile \/ startDate = NoDate \/ endDate = NoDate \/ processing

\* a click on "Transfer to Excel", lines 282-288
ProcessFile == ~ButtonDisabled /\ ProcessFileCall

-----------------------------------------------------------------------------
(* The decode callbacks *)

\* what Array.prototype.find returns when nothing matches
Undefined == <<"undefined">>

\* headers.find((header) => header.trim().toLowerCase() === normalizedDateColumn)
Find(headers, normalizedDateColumn) ==
  LET hits == { i \in 1..Len(headers) : Normalize(headers[i]) = normalizedDateColumn }
  IN  IF hits = {} THEN Undefined
      ELSE headers[CHOOSE i \in hits : \A j \in hits : i <= j]

\* !actualDateColumn: undefined and '' are falsy
Falsy(x) == x = Undefined \/ x = <<>>

\* A row of Papa.parse with header: true: an object keyed by the field names
\* (the decoder's field names are distinct)
CsvRecord(headers, row) ==
  [h \in Range(headers) |-> row[CHOOSE i \in 1..Len(headers) : headers[i] = h]]

\* lines 112-118: headers.forEach((header, index) => { obj[header] = row[index] })
\* assigns in header order, so a later column with the same key overwrites
ExcelRecord(headers, row) ==
  [h \in Range(headers) |->
     row[CHOOSE i \in 1..Len(headers) :
           headers[i] = h /\ \A j \in 1..Len(headers) : headers[j] = h => j <= i]]

Reason == "Date out of range or invalid format"

NoAcc == [processed |-> 0, skipped |-> 0, skippedRowsLocal |-> <<>>,
          validDateRows |-> <<>>, threw |-> FALSE]

\* Mutation of FilterStep: the row number is index + 1.
FilterStepRowOff(acc, row, index, col, start, end, off) ==
  LET rowDate == ParseDate(row[col], off)
  IN  IF rowDate = Threw THEN [acc EXCEPT !.threw = TRUE]
      ELSE IF rowDate = Null \/ Before(rowDate, start) \/ Before(end, rowDate)
      THEN [acc EXCEPT !.skipped = @ + 1,
                       !.skippedRowsLocal =
                          Append(@, [rowNumber |-> index + 1, reason |-> Reason])]
      ELSE [acc EXCEPT !.processed = @ + 1, !.validDateRows = Append(@, row)]

\* Mutation of FilterStep: an out-of-range row is listed but not counted.
FilterStepNoCount(acc, row, index, col, start, end, off) ==
  LET rowDate == ParseDate(row[col], off)
  IN  IF rowDate = Threw THEN [acc EXCEPT !.threw = TRUE]
      ELSE IF rowDate = Null
      THEN [acc EXCEPT !.skipped = @ + 1,
                       !.skippedRowsLocal =
                          Append(@, [rowNumber |-> index + 2, reason |-> Reason])]
      ELSE IF Before(rowDate, start) \/ Before(end, rowDate)
      THEN [acc EXCEPT !.skippedRowsLocal =
                          Append(@, [rowNumber |-> index + 2, reason |-> Reason])]
      ELSE [acc EXCEPT !.processed = @ + 1, !.validDateRows = Append(@, row)]

\* the filter callback, lines 155-167, on the row at 0-based position index
FilterStep(acc, row, index, col, start, end, off) ==
  LET dateString == row[col]
      rowDate == ParseDate(dateString, off)
  IN  IF rowDate = Threw THEN [acc EXCEPT !.threw = TRUE]
      ELSE IF rowDate = Null \/ Before(rowDate, start) \/ Before(end, rowDate)
      THEN [acc EXCEPT !.skipped = @ + 1,
                       !.skippedRowsLocal =
                          Append(@, [rowNumber |-> index + 2, reason |-> Reason])]
      ELSE [acc EXCEPT !.processed = @ + 1, !.validDateRows = Append(@, row)]

\* data.filter(...), line 155: the rows in order, until a callback throws
RECURSIVE FilterFrom(_, _, _, _, _, _, _)
FilterFrom(data, i, acc, col, start, end, off) ==
  IF i > Len(data) \/ acc.threw THEN acc
  ELSE FilterFrom(data, i + 1,
                  FilterStep(acc, data[i], i - 1, col, start, end, off),
                  col, start, end, off)

\* lines 150-153
RangeStart(s, off) == SetHours(NewDateIso(s), 0, off)
RangeEnd(e, off) == SetHours(NewDateIso(e), EndOfDayMs, off)

\* lines 146-167 of transferToExcel
Partition(data, col, s, e, off) ==
  FilterFrom(data, 1, NoAcc, col, RangeStart(s, off), RangeEnd(e, off), off)

\* Mutation of WriteOutput: no early return, the file is written also when
\* nothing was kept.
WriteOutputAlways(r) ==
  /\ error' = (IF Len(r.validDateRows) = 0 THEN Err("NoValidData") ELSE error)
  /\ saved' = [written |-> TRUE, rows |-> r.validDateRows, start |-> run.start,
               end |-> run.end, alert |-> <<r.processed, r.skipped>>]

\* lines 173-188 of transferToExcel
WriteOutput(r) ==
  IF Len(r.validDateRows) = 0
  THEN /\ error' = Err("NoValidData")
       /\ UNCHANGED saved
  ELSE /\ saved' = [written |-> TRUE, rows |-> r.validDateRows, start |-> run.start,
                    end |-> run.end, alert |-> <<r.processed, r.skipped>>]
       /\ UNCHANGED error

\* transferToExcel, lines 145-189, and the setProcessing(false) that follows
\* the call; delivered is the history record of what the callback was handed
TransferToExcel(data, actualDateColumn, delivered) ==
  \E r \in { Partition(data, actualDateColumn, run.start, run.end, tz) } :
    IF r.threw
    THEN \* the TypeError leaves the callback: nothing after line 157 runs
         /\ last' = [delivered EXCEPT !.outcome = "threw"]
         /\ UNCHANGED <<processedCount, skippedCount, skippedRows, error, saved,
                        processing>>
    ELSE /\ processedCount' = r.processed
         /\ skippedCount' = r.skipped
         /\ skippedRows' = r.skippedRowsLocal
         /\ WriteOutput(r)
         /\ processing' = FALSE
         /\ last' = [delivered EXCEPT !.outcome = "done"]

Delivered(path, t) ==
  [path |-> path, headers |-> t.headers, rows |-> t.rows, column |-> run.column,
   start |-> run.start, end |-> run.end, outcome |-> "notfound"]

\* complete of Papa.parse, lines 75-93
CsvComplete ==
  /\ pc = "csv"
  /\ \E result \in CsvTables :
       \E jsonData \in { [i \in 1..Len(result.rows) |->
                            CsvRecord(result.headers, result.rows[i])] } :
       \E headers \in { result.headers } :
       \E normalizedDateColumn \in { ToLowerCase(Trim(run.column)) } :
       \E actualDateColumn \in { Find(headers, normalizedDateColumn) } :
         /\ totalRows' = Len(jsonData)
         /\ IF Falsy(actualDateColumn)
            THEN /\ error' = [kind |-> "CsvColumnMissing", name |-> run.column]
                 /\ processing' = FALSE
                 /\ last' = Delivered("csv", result)
                 /\ UNCHANGED <<processedCount, skippedCount, skippedRows, saved>>
            ELSE TransferToExcel(jsonData, actualDateColumn, Delivered("csv", result))
  /\ pc' = "idle"
  /\ run' = NoRun
  /\ UNCHANGED <<file, startDate, endDate, dateColumn, tz>>

\* error of Papa.parse, lines 94-98
CsvError ==
  /\ pc = "csv"
  /\ error' = Err("CsvParseFailed")
  /\ processing' = FALSE
  /\ pc' = "idle"
  /\ run' = NoRun
  /\ last' = [NoLast EXCEPT !.path = "csv", !.outcome = "readerror"]
  /\ UNCHANGED <<file, startDate, endDate, dateColumn, processedCount, skippedCount,
                 skippedRows, totalRows, tz, saved>>

\* reader.onload, lines 105-135
ExcelOnLoad ==
  /\ pc = "excel"
  /\ \E worksheet \in Worksheets :
       IF ~worksheet.hasRows
       THEN \* worksheet[0] is undefined: line 111 throws a TypeError
            /\ last' = [NoLast EXCEPT !.path = "excel", !.outcome = "threw"]
            /\ UNCHANGED <<error, processing, processedCount, skippedCount,
                           skippedRows, totalRows, saved>>
       ELSE \E headers \in { [i \in 1..Len(worksheet.headers) |->
                                ToLowerCase(Trim(worksheet.headers[i]))] } :
            \E jsonData \in { [i \in 1..Len(worksheet.rows) |->
                                 ExcelRecord(headers, worksheet.rows[i])] } :
            \E normalizedDateColumn \in { ToLowerCase(Trim(run.column)) } :
            \E actualDateColumn \in { Find(headers, normalizedDateColumn) } :
              /\ totalRows' = Len(jsonData)
              /\ IF Falsy(actualDateColumn)
                 THEN /\ error' = [kind |-> "ExcelColumnMissing", name |-> run.column]
                      /\ processing' = FALSE
                      /\ last' = Delivered("excel", worksheet)
                      /\ UNCHANGED <<processedCount, skippedCount, skippedRows, saved>>
                 ELSE TransferToExcel(jsonData, actualDateColumn,
                                      Delivered("excel", worksheet))
  /\ pc' = "idle"
  /\ run' = NoRun
  /\ UNCHANGED <<file, startDate, endDate, dateColumn, tz>>

\* reader.onerror, lines 136-140
ExcelOnError ==
  /\ pc = "excel"
  /\ error' = Err("ExcelReadFailed")
  /\ processing' = FALSE
  /\ pc' = "idle"
  /\ run' = NoRun
  /\ last' = [NoLast EXCEPT !.path = "excel", !.outcome = "readerror"]
  /\ UNCHANGED <<file, startDate, endDate, dateColumn, processedCount, skippedCount,
                 skippedRows, totalRows, tz, saved>>

-----------------------------------------------------------------------------
(* Specifications *)

Next ==
  \/ HandleFileChange
  \/ HandleDateColumnChange
  \/ SetStartDate
  \/ SetEndDate
  \/ ProcessFile
  \/ CsvComplete
  \/ CsvError
  \/ ExcelOnLoad
  \/ ExcelOnError

\* The component as the user drives it.
Spec == Init /\ [][Next]_vars

\* processFile called with nothing in flight, whatever the inputs hold
ProcessFileDirect == ~processing /\ ProcessFileCall

NextHandler ==
  \/ HandleFileChange
  \/ HandleDateColumnChange
  \/ SetStartDate
  \/ SetEndDate
  \/ ProcessFileDirect
  \/ CsvComplete
  \/ CsvError
  \/ ExcelOnLoad
  \/ ExcelOnError

\* The handlers as functions: processFile is also called from states in which
\* the button is disabled (no file, a date missing).
HandlerSpec == Init /\ [][NextHandler]_vars

\* Papa.parse calls complete or error, and the FileReader fires load or error,
\* once the read has ended.
LiveSpec ==
  /\ Spec
  /\ WF_vars(CsvComplete \/ CsvError)
  /\ WF_vars(ExcelOnLoad \/ ExcelOnError)

-----------------------------------------------------------------------------
(* Properties *)

\* transferToExcel ran to its end in the latest run
Completed == last.outcome = "done"

\* the header list and the records the latest callback worked on
LastHeaders ==
  IF last.path = "excel"
  THEN [i \in 1..Len(last.headers) |-> Normalize(last.headers[i])]
  ELSE last.headers

LastData ==
  [i \in 1..Len(last.rows) |->
     IF last.path = "excel" THEN ExcelRecord(LastHeaders, last.rows[i])
     ELSE CsvRecord(LastHeaders, last.rows[i])]

\* the cell the filter read for the i-th record
CellRead(i) == LastData[i][Find(LastHeaders, Normalize(last.column))]

\* the cell of the i-th record in the column of the first matching header
FirstMatch ==
  CHOOSE i \in 1..Len(last.headers) :
    /\ Normalize(last.headers[i]) = Normalize(last.column)
    /\ \A j \in 1..(i - 1) : Normalize(last.headers[j]) # Normalize(last.column)

FirstMatchCell(i) == last.rows[i][FirstMatch]

\* the row numbers on the skip list
SkippedNumbers == { skippedRows[k].rowNumber : k \in 1..Len(skippedRows) }

\* the i-th record (1-based) is on the skip list under row number i + 1
IsSkipped(i) == (i + 1) \in SkippedNumbers

\* the day the user selected, as a local day number
SelectedDay(v) == MakeDay(v.y, v.m - 1, v.d)

\* 00:00:00.000 of the selected start day and 23:59:59.999 of the selected end
\* day, local time
SelectedStart == FromLocal(SelectedDay(last.start), 0, tz)
SelectedEnd == FromLocal(SelectedDay(last.end), EndOfDayMs, tz)

InSelectedDays(t) == ~Before(t, SelectedStart) /\ ~Before(SelectedEnd, t)

\* the test of line 159 on a cell, with the bounds of lines 150-153
Rejects(c) ==
  LET t == ParseDate(c, tz)
  IN  \/ t = Null
      \/ Before(t, RangeStart(last.start, tz))
      \/ Before(RangeEnd(last.end, tz), t)

\* C1: after transferToExcel completes, the kept count plus the skipped count
\* is the number of input records, the kept count is the number of kept
\* records and the skipped count is the length of the skip list.
C1_CountsAddUp ==
  Completed =>
    /\ totalRows = Len(last.rows)
    /\ processedCount + skippedCount = totalRows
    /\ processedCount = Len(saved.rows)
    /\ skippedCount = Len(skippedRows)

C1_Witness == Completed /\ processedCount >= 1 /\ skippedCount >= 1

\* C2: every kept record's normalized date lies between 00:00:00.000 of the
\* selected start day and 23:59:59.999 of the selected end day, local time.
C2_KeptWithinSelectedDays ==
  Completed =>
    \A i \in 1..Len(last.rows) :
      ~IsSkipped(i) => InSelectedDays(ParseDate(CellRead(i), tz))

\* a slash-delimited cell the general parser rejects and whose month or day is
\* outside the calendar
Overflows(c) ==
  /\ c.k = "slash"
  /\ NewDateValue(c, tz) = InvalidDate
  /\ ~IsCalendarDate(IF c.y < 100 THEN c.y + 2000 ELSE c.y, c.m, c.d)

\* C3: every skipped record's cell fails to normalize or its date lies strictly
\* outside the selected days.  (A cell with a month or day outside the calendar
\* counts as failing to normalize here, which is C4's subject.)
C3_SkippedOutsideSelectedDays ==
  Completed =>
    \A i \in 1..Len(last.rows) :
      IsSkipped(i) =>
        \/ ParseDate(CellRead(i), tz) = Null
        \/ Overflows(CellRead(i))
        \/ ~InSelectedDays(ParseDate(CellRead(i), tz))

\* C4: a slash-delimited cell with a month outside 1..12 or a day outside the
\* month is unparseable, so its row is skipped whatever the range.
C4_OverflowIsSkipped ==
  Completed =>
    \A i \in 1..Len(last.rows) : Overflows(CellRead(i)) => IsSkipped(i)

\* C5: when no header matches, the run fails with a column-not-found error
\* carrying the requested name, and no count, skip entry or file is produced.
C5_NotFoundReportsNothing ==
  last.outcome = "notfound" =>
    /\ error.kind \in {"CsvColumnMissing", "ExcelColumnMissing"}
    /\ error.name = last.column
    /\ skippedRows = <<>>
    /\ ~saved.written
    /\ processedCount = 0
    /\ skippedCount = 0
    /\ totalRows = 0

\* a date is missing, or the end day is an earlier calendar day than the start
BadRange(s, e) ==
  \/ s = NoDate
  \/ e = NoDate
  \/ e.y < s.y
  \/ (e.y = s.y /\ e.m < s.m)
  \/ (e.y = s.y /\ e.m = s.m /\ e.d < s.d)

RangeErrors == {"SelectBothDates", "EndBeforeStart"}

\* C6: processFile with a missing or reversed range sets a range error and
\* nothing else happens: no read starts, processing stays false, no counts,
\* skip entries or file; with both days present and start <= end it sets no
\* range error.
C6_RangeChecked ==
  [][ (~processing /\ ProcessFileCall) =>
        IF BadRange(startDate, endDate)
        THEN /\ error'.kind \in RangeErrors
             /\ ~processing'
             /\ pc' = "idle"
             /\ processedCount' = 0 /\ skippedCount' = 0 /\ totalRows' = 0
             /\ skippedRows' = <<>>
             /\ ~saved'.written
        ELSE error'.kind \notin RangeErrors ]_vars

C6_Witness == error.kind = "SelectBothDates" /\ ~processing /\ pc = "idle"

\* C7: the cell read for each record is the cell under the first header whose
\* normalized form equals the normalized requested name.
C7_FirstMatchingColumn ==
  Completed =>
    \A i \in 1..Len(last.rows) : IsSkipped(i) <=> Rejects(FirstMatchCell(i))

\* the records that are not on the skip list, in input order
RECURSIVE KeptFrom(_)
KeptFrom(i) ==
  IF i > Len(last.rows) THEN <<>>
  ELSE (IF IsSkipped(i) THEN <<>> ELSE <<LastData[i]>>) \o KeptFrom(i + 1)

\* C8: a pass that keeps nothing reports the full result and "no valid data"
\* and writes no file; a file is written only with at least one kept record,
\* and holds exactly the kept records in their original order.
C8_OutputOnlyWhenKept ==
  /\ saved.written => Len(saved.rows) >= 1
  /\ Completed =>
       IF processedCount = 0
       THEN /\ skippedCount = Len(last.rows)
            /\ Len(skippedRows) = Len(last.rows)
            /\ error.kind = "NoValidData"
            /\ ~saved.written
       ELSE /\ saved.written
            /\ saved.rows = KeptFrom(1)

C8_Witness ==
  Completed /\ processedCount = 0 /\ Len(last.rows) = MaxRows /\ ~saved.written

\* C9: a skip entry carries the record's 0-based index + 2 whatever happened to
\* the records before it: the skip list is strictly increasing in row number,
\* within 2..totalRows + 1, and holds exactly the rejected records.
C9_RowNumbers ==
  Completed =>
    /\ \A k \in 1..Len(skippedRows) :
         /\ skippedRows[k].rowNumber \in 2..(totalRows + 1)
         /\ skippedRows[k].reason = Reason
         /\ k > 1 => skippedRows[k - 1].rowNumber < skippedRows[k].rowNumber
    /\ \A i \in 1..Len(last.rows) : Rejects(CellRead(i)) <=> IsSkipped(i)
    /\ Len(skippedRows) = Cardinality(SkippedNumbers)

C9_Witness ==
  /\ Completed
  /\ processedCount = 1
  /\ Len(skippedRows) = 1
  /\ skippedRows[1].rowNumber = 3

\* C10: every run that sets processing eventually sets it back to false.
C10_ProcessingEnds == processing ~> ~processing

====
